---- MODULE Spec2Model ----
(***************************************************************************)
(* The type-state WindowBuilder of src/interface/windows/builder.rs, the   *)
(* Window it builds and the window cache it reads.                         *)
(*                                                                         *)
(* Option<T> is a sequence of length at most one: None is <<>>, Some(x) is *)
(* <<x>>.  The type-state parameters are modelled the same way: NotSet is  *)
(* <<>>, Set is <<TRUE>> and SetWith(x) is <<x>>.                          *)
(*                                                                         *)
(* Lengths are f32 in the program.  The model draws them from integers     *)
(* for which every operation of the code is exact: available space and     *)
(* absolute pixel counts are even and the only percentage is 100, so the   *)
(* halving of the centred placement never leaves the integers.             *)
(***************************************************************************)
EXTENDS Integers, Sequences, FiniteSets, TLC

VARIABLES
    builder,        \* Option<WindowBuilder>: the builder under construction
    calls,          \* per method, the arguments of the calls made on the builder
    window,         \* Option<Window>: the window the last build produced
    window_cache,   \* WindowCache: class -> Option<(position, size)>
    queried,        \* the classes get_window_state was asked for since WindowBuilder::new
    built_with,     \* Option: the settings and available space the window was built with
    cells,          \* the live element cells: cell -> element
    items,          \* the Vec<Item> the equipment container's Remote tracks
    pending,        \* the Remote holds a change consume_changed has not yet reported
    generation,     \* how many times the equipment container rebuilt its children
    returned,       \* the last call made on the element tree, with what it returned
    nav,            \* the focus request in progress
    visited,        \* the elements the focus requests returned since the first one
    particles,      \* EffectSource.particles: the Vec<Particle> of the effect source
    spawn_timer,    \* EffectSource.spawn_timer, in tenths of a second
    frame           \* the call of EffectSource::update in progress, or the last one

window_vars == <<builder, calls, window, window_cache, queried, built_with>>
element_vars == <<cells, items, pending, generation, returned, nav, visited>>
effect_vars == <<particles, spawn_timer, frame>>
vars == <<window_vars, element_vars, effect_vars>>

----------------------------------------------------------------------------
(* Bounds of the model.                                                    *)

\* user elements are numbered 1..MaxElems and a list holds at most MaxElems
MaxElems == 2
\* a method is not called more than MaxCalls times on one builder
MaxCalls == 2
\* interface_settings.scaling is 1..MaxScale
MaxScale == 2
\* available space is 2, 8, .. 6 * MaxAvail - 4 on each axis
MaxAvail == 2
\* cached sizes are 2, 5, .. 3 * MaxSize - 1 on each axis
MaxSize == 3
\* cached positions are -1, 2, .. 3 * MaxPos - 4 on each axis
MaxPos == 2

----------------------------------------------------------------------------
(* Option and type-state values.                                           *)

None == <<>>
Some(x) == <<x>>
IsSome(o) == o # <<>>

NotSet == <<>>
Set == <<TRUE>>
SetWith(x) == <<x>>

Min2(a, b) == IF a < b THEN a ELSE b
Max2(a, b) == IF a > b THEN a ELSE b

----------------------------------------------------------------------------
(* Dimension and SizeBound (spec 3 and 4.1).                               *)

Absolute(px) == [kind |-> "Absolute", v |-> px]
Relative(percent) == [kind |-> "Relative", v |-> percent]
Flexible == [kind |-> "Flexible", v |-> 0]
Super == [kind |-> "Super", v |-> 0]

\* resolve(constraint, available_space, parent_resolved_value, scaling_factor)
Resolve(dimension, available, parent, scaling) ==
    CASE dimension.kind = "Absolute" -> dimension.v * scaling
      [] dimension.kind = "Relative" -> (dimension.v * parent) \div 100
      [] dimension.kind = "Flexible" -> available
      [] dimension.kind = "Super" -> parent

\* mutant of ClampAxis: the axis keeps its own result
ClampAxisUnclamped(length, minimum, maximum, available, scaling) == length

\* minimum and maximum override the axis's own result, after primary resolution
ClampAxis(length, minimum, maximum, available, scaling) ==
    LET raised == IF IsSome(minimum)
                  THEN Max2(length, Resolve(minimum[1], available, available, scaling))
                  ELSE length
    IN  IF IsSome(maximum)
        THEN Min2(raised, Resolve(maximum[1], available, available, scaling))
        ELSE raised

\* SizeBound::resolve_window(available, parent_limits, scaling): a partial size
ResolveWindow(size_bound, available, parent_limits, scaling) ==
    [width |-> Some(ClampAxis(Resolve(size_bound.width, available.width, parent_limits.width, scaling),
                              size_bound.minimum_width, size_bound.maximum_width,
                              available.width, scaling)),
     height |-> Some(ClampAxis(Resolve(size_bound.height, available.height, parent_limits.height, scaling),
                               size_bound.minimum_height, size_bound.maximum_height,
                               available.height, scaling))]

\* PartialScreenSize::finalize_or(default)
FinalizeOr(partial, default) ==
    [width |-> IF IsSome(partial.width) THEN partial.width[1] ELSE default,
     height |-> IF IsSome(partial.height) THEN partial.height[1] ELSE default]

\* SizeBound::validated_window_size(size, available, scaling): the cached size
\* is clamped to the bound's minimum and maximum and then to the available space
ValidatedWindowSize(size_bound, size, available, scaling) ==
    [width |-> Min2(ClampAxis(size.width, size_bound.minimum_width, size_bound.maximum_width,
                              available.width, scaling),
                    available.width),
     height |-> Min2(ClampAxis(size.height, size_bound.minimum_height, size_bound.maximum_height,
                               available.height, scaling),
                     available.height)]

\* SizeBound::validated_position(position, size, available): the cached position
\* is moved so that the window's rectangle stays on-screen
ValidatedPosition(size_bound, position, size, available) ==
    [left |-> Max2(0, Min2(position.left, available.width - size.width)),
     top |-> Max2(0, Min2(position.top, available.height - size.height))]

\* ScreenPosition::from_size((available_space - size) / 2.0)
Centered(size, available) ==
    [left |-> (available.width - size.width) \div 2,
     top |-> (available.height - size.height) \div 2]

----------------------------------------------------------------------------
(* The window cache (spec 4.5).                                            *)

Classes == {"inventory", "equipment"}

\* WindowCache::get_window_state(class) -> Option<(position, size)>
GetWindowState(cache, class) == cache[class]

\* WindowCache::update_window_state(class, position, size)
SetWindowState(cache, class, position, size) ==
    [cache EXCEPT ![class] = Some([position |-> position, size |-> size])]

----------------------------------------------------------------------------
(* WindowBuilder.                                                          *)

Methods == {"with_title", "closable", "with_class", "with_class_option", "with_size_bound",
            "with_elements", "with_background_color", "with_theme_kind", "build"}

NoCalls == [m \in Methods |-> <<>>]
Called(m) == Len(calls[m]) > 0
CanCall(m) == Len(calls[m]) < MaxCalls
Record(m, argument) == [calls EXCEPT ![m] = Append(@, argument)]

DefaultThemeKind == "Main"

\* mutant of NewBuilder: the element list starts as an empty Vec instead of NotSet
NewBuilderEmptyElements ==
    [title |-> None,
     closable |-> FALSE,
     class |-> None,
     size_bound |-> NotSet,
     elements |-> SetWith(<<>>),
     background_color |-> None,
     theme_kind |-> DefaultThemeKind,
     marker |-> [TITLE |-> NotSet, CLOSABLE |-> NotSet, CLASS |-> NotSet,
                 BACKGROUND |-> NotSet, THEME |-> NotSet]]

\* WindowBuilder::new
NewBuilder ==
    [title |-> None,
     closable |-> FALSE,
     class |-> None,
     size_bound |-> NotSet,
     elements |-> NotSet,
     background_color |-> None,
     theme_kind |-> DefaultThemeKind,
     marker |-> [TITLE |-> NotSet, CLOSABLE |-> NotSet, CLASS |-> NotSet,
                 BACKGROUND |-> NotSet, THEME |-> NotSet]]

Building == IsSome(builder)
B == builder[1]

New ==
    /\ builder = None
    /\ window = None
    /\ builder' = Some(NewBuilder)
    /\ calls' = NoCalls
    /\ queried' = {}
    /\ UNCHANGED <<window, window_cache, built_with>>
    /\ UNCHANGED <<element_vars, effect_vars>>

\* impl WindowBuilder<NotSet, CLOSABLE, CLASS, SIZE, ELEMENTS, BACKGROUND, THEME>
HasWithTitle(b) == b.marker.TITLE = NotSet

WithTitle(title) ==
    /\ Building
    /\ HasWithTitle(B)
    /\ CanCall("with_title")
    /\ builder' = Some([B EXCEPT !.title = Some(title), !.marker.TITLE = Set])
    /\ calls' = Record("with_title", title)
    /\ UNCHANGED <<window, window_cache, queried, built_with>>
    /\ UNCHANGED <<element_vars, effect_vars>>

\* mutant of HasClosable: implemented for every TITLE
HasClosableUntitled(b) == b.marker.CLOSABLE = NotSet

\* impl WindowBuilder<Set, NotSet, CLASS, SIZE, ELEMENTS, BACKGROUND, THEME>
HasClosable(b) == b.marker.TITLE = Set /\ b.marker.CLOSABLE = NotSet

Closable ==
    /\ Building
    /\ HasClosable(B)
    /\ CanCall("closable")
    /\ builder' = Some([B EXCEPT !.closable = TRUE, !.marker.CLOSABLE = Set])
    /\ calls' = Record("closable", TRUE)
    /\ UNCHANGED <<window, window_cache, queried, built_with>>
    /\ UNCHANGED <<element_vars, effect_vars>>

\* impl WindowBuilder<TITLE, CLOSABLE, NotSet, SIZE, ELEMENTS, BACKGROUND, THEME>
HasWithClass(b) == b.marker.CLASS = NotSet

\* mutant of ClassMarker: the returned builder keeps CLASS as it was
ClassMarkerKept(marker) == marker

\* the type-state with_class and with_class_option return
ClassMarker(marker) == [marker EXCEPT !.CLASS = Set]

WithClass(class) ==
    /\ Building
    /\ HasWithClass(B)
    /\ CanCall("with_class")
    /\ builder' = Some([B EXCEPT !.class = Some(class), !.marker = ClassMarker(@)])
    /\ calls' = Record("with_class", class)
    /\ UNCHANGED <<window, window_cache, queried, built_with>>
    /\ UNCHANGED <<element_vars, effect_vars>>

WithClassOption(class) ==
    /\ Building
    /\ HasWithClass(B)
    /\ CanCall("with_class_option")
    /\ builder' = Some([B EXCEPT !.class = class, !.marker = ClassMarker(@)])
    /\ calls' = Record("with_class_option", class)
    /\ UNCHANGED <<window, window_cache, queried, built_with>>
    /\ UNCHANGED <<element_vars, effect_vars>>

\* impl WindowBuilder<TITLE, CLOSABLE, CLASS, NotSet, ELEMENTS, BACKGROUND, THEME>
HasWithSizeBound(b) == b.size_bound = NotSet

WithSizeBound(size_bound) ==
    /\ Building
    /\ HasWithSizeBound(B)
    /\ CanCall("with_size_bound")
    /\ builder' = Some([B EXCEPT !.size_bound = SetWith(size_bound)])
    /\ calls' = Record("with_size_bound", size_bound)
    /\ UNCHANGED <<window, window_cache, queried, built_with>>
    /\ UNCHANGED <<element_vars, effect_vars>>

\* impl WindowBuilder<TITLE, CLOSABLE, CLASS, SIZE, NotSet, BACKGROUND, THEME>
HasWithElements(b) == b.elements = NotSet

WithElements(elements) ==
    /\ Building
    /\ HasWithElements(B)
    /\ CanCall("with_elements")
    /\ builder' = Some([B EXCEPT !.elements = SetWith(elements)])
    /\ calls' = Record("with_elements", elements)
    /\ UNCHANGED <<window, window_cache, queried, built_with>>
    /\ UNCHANGED <<element_vars, effect_vars>>

\* impl WindowBuilder<TITLE, CLOSABLE, CLASS, SIZE, ELEMENTS, NotSet, THEME>
HasWithBackgroundColor(b) == b.marker.BACKGROUND = NotSet

WithBackgroundColor(background_color) ==
    /\ Building
    /\ HasWithBackgroundColor(B)
    /\ CanCall("with_background_color")
    /\ builder' = Some([B EXCEPT !.background_color = Some(background_color),
                                  !.marker.BACKGROUND = Set])
    /\ calls' = Record("with_background_color", background_color)
    /\ UNCHANGED <<window, window_cache, queried, built_with>>
    /\ UNCHANGED <<element_vars, effect_vars>>

\* impl WindowBuilder<TITLE, CLOSABLE, CLASS, SIZE, ELEMENTS, BACKGROUND, NotSet>
HasWithThemeKind(b) == b.marker.THEME = NotSet

\* mutant of SetThemeKind: the background colour is not taken over from self
SetThemeKindOnly(b, theme_kind) ==
    [b EXCEPT !.theme_kind = theme_kind, !.marker.THEME = Set, !.background_color = None]

\* with_theme_kind: WindowBuilder { theme_kind, marker: PhantomData, ..self }
SetThemeKind(b, theme_kind) == [b EXCEPT !.theme_kind = theme_kind, !.marker.THEME = Set]

WithThemeKind(theme_kind) ==
    /\ Building
    /\ HasWithThemeKind(B)
    /\ CanCall("with_theme_kind")
    /\ builder' = Some(SetThemeKind(B, theme_kind))
    /\ calls' = Record("with_theme_kind", theme_kind)
    /\ UNCHANGED <<window, window_cache, queried, built_with>>
    /\ UNCHANGED <<element_vars, effect_vars>>

----------------------------------------------------------------------------
(* WindowBuilder::build.                                                   *)

\* impl WindowBuilder<.., SetWith<SizeBound>, SetWith<Vec<ElementCell>>, ..>
HasBuild(b) == b.size_bound # NotSet /\ b.elements # NotSet

\* Vec::insert(0, element)
InsertFront(elements, element) == <<element>> \o elements

\* CloseButton::default().wrap()
CloseButton == [kind |-> "CloseButton"]

\* DragButton::new(title, width_bound).wrap()
DragButton(title, width_bound) == [kind |-> "DragButton", title |-> title, width_bound |-> width_bound]

\* mutant of WithChrome: the drag button is inserted first, the close button before it
WithChromeSwapped(title, closable, elements) ==
    LET width_bound == IF closable THEN "70%" ELSE "!"
        dragged == IF IsSome(title)
                   THEN InsertFront(elements, DragButton(title[1], width_bound))
                   ELSE elements
    IN  IF closable THEN InsertFront(dragged, CloseButton) ELSE dragged

\* the close button is inserted at the front, then the drag button before it
WithChrome(title, closable, elements) ==
    LET closed == IF closable THEN InsertFront(elements, CloseButton) ELSE elements
        width_bound == IF closable THEN "70%" ELSE "!"
    IN  IF IsSome(title)
        THEN InsertFront(closed, DragButton(title[1], width_bound))
        ELSE closed

\* Option::map(|_| Dimension::Super)
MapSuper(dimension) == IF IsSome(dimension) THEN Some(Super) ELSE None

\* mutant of ContainerSizeBound: the root container is given the window's own bound
ContainerSizeBoundOwn(size_bound) == size_bound

ContainerSizeBound(size_bound) ==
    [width |-> Relative(100),
     minimum_width |-> MapSuper(size_bound.minimum_width),
     maximum_width |-> MapSuper(size_bound.maximum_width),
     height |-> Flexible,
     minimum_height |-> MapSuper(size_bound.minimum_height),
     maximum_height |-> MapSuper(size_bound.maximum_height)]

\* vec![Container::new(elements).with_size(container_size_bound).wrap()], each
\* element linked back with a weak reference to itself and no parent
RootElements(elements, size_bound) ==
    << [kind |-> "Container",
        elements |-> elements,
        size_bound |-> ContainerSizeBound(size_bound),
        weak_self |-> Some("root"),
        parent_element |-> None] >>

DefaultClass == "inventory"

\* mutant of CacheLookup: a window without a class is looked up under a default class
CacheLookupDefault(class, cache) ==
    [queried |-> IF IsSome(class) THEN {class[1]} ELSE {DefaultClass},
     state |-> IF IsSome(class) THEN GetWindowState(cache, class[1])
               ELSE GetWindowState(cache, DefaultClass)]

\* class.as_ref().and_then(|window_class| window_cache.get_window_state(window_class)):
\* the classes the cache is asked for, and its answer
CacheLookup(class, cache) ==
    [queried |-> IF IsSome(class) THEN {class[1]} ELSE {},
     state |-> IF IsSome(class) THEN GetWindowState(cache, class[1]) ELSE None]

\* Option<(position, size)>::unzip
Unzip(state) ==
    [position |-> IF IsSome(state) THEN Some(state[1].position) ELSE None,
     size |-> IF IsSome(state) THEN Some(state[1].size) ELSE None]

\* mutant of BuildSize: the cached size is taken as it is
BuildSizeUnvalidated(size_bound, cached_size, available_space, scaling) ==
    IF IsSome(cached_size)
    THEN cached_size[1]
    ELSE FinalizeOr(ResolveWindow(size_bound, available_space, available_space, scaling), 0)

\* mutant of BuildSize: without a cached size no axis is resolved and the
\* default of finalize_or is the size
BuildSizeDefault(size_bound, cached_size, available_space, scaling) ==
    IF IsSome(cached_size)
    THEN ValidatedWindowSize(size_bound, cached_size[1], available_space, scaling)
    ELSE FinalizeOr([width |-> None, height |-> None], 0)

BuildSize(size_bound, cached_size, available_space, scaling) ==
    IF IsSome(cached_size)
    THEN ValidatedWindowSize(size_bound, cached_size[1], available_space, scaling)
    ELSE FinalizeOr(ResolveWindow(size_bound, available_space, available_space, scaling), 0)

\* mutant of BuildPosition: without a cached position the window is put at the origin
BuildPositionOrigin(size_bound, cached_position, size, available_space) ==
    IF IsSome(cached_position)
    THEN ValidatedPosition(size_bound, cached_position[1], size, available_space)
    ELSE [left |-> 0, top |-> 0]

\* mutant of BuildPosition: the window is centred whatever the cache holds
BuildPositionCentered(size_bound, cached_position, size, available_space) ==
    Centered(size, available_space)

\* mutant of BuildPosition: the cached position is taken as it is
BuildPositionUnvalidated(size_bound, cached_position, size, available_space) ==
    IF IsSome(cached_position)
    THEN cached_position[1]
    ELSE Centered(size, available_space)

BuildPosition(size_bound, cached_position, size, available_space) ==
    IF IsSome(cached_position)
    THEN ValidatedPosition(size_bound, cached_position[1], size, available_space)
    ELSE Centered(size, available_space)

BuildWindow(b, cache, scaling, available_space) ==
    LET size_bound == b.size_bound[1]
        elements == WithChrome(b.title, b.closable, b.elements[1])
        cached == Unzip(CacheLookup(b.class, cache).state)
        size == BuildSize(size_bound, cached.size, available_space, scaling)
        position == BuildPosition(size_bound, cached.position, size, available_space)
    IN  [window_class |-> b.class,
         position |-> position,
         size_bound |-> size_bound,
         size |-> size,
         elements |-> RootElements(elements, size_bound),
         popup_element |-> None,
         closable |-> b.closable,
         background_color |-> b.background_color,
         theme_kind |-> b.theme_kind]

\* mutant of CacheAfterBuild: build stores the geometry of a classed window
CacheAfterBuildStored(cache, built) ==
    IF IsSome(built.window_class)
    THEN SetWindowState(cache, built.window_class[1], built.position, built.size)
    ELSE cache

\* build(self, window_cache: &WindowCache, ..): the cache is borrowed shared
\* and only get_window_state is called on it
CacheAfterBuild(cache, built) == cache

Build(scaling, available_space) ==
    /\ Building
    /\ HasBuild(B)
    /\ CanCall("build")
    /\ window' = Some(BuildWindow(B, window_cache, scaling, available_space))
    /\ queried' = queried \cup CacheLookup(B.class, window_cache).queried
    /\ builder' = None
    /\ calls' = Record("build", TRUE)
    /\ built_with' = Some([scaling |-> scaling, available_space |-> available_space])
    /\ window_cache' = CacheAfterBuild(window_cache,
                                       BuildWindow(B, window_cache, scaling, available_space))
    /\ UNCHANGED <<element_vars, effect_vars>>

----------------------------------------------------------------------------
(* The life of a window after build (spec 3, Window and WindowCache).      *)

Open == IsSome(window)
W == window[1]

\* the window is closed at a position and size and dropped; a classed window
\* is cached (the cache is populated at window-close time)
CloseWindow(position, size) ==
    /\ Open
    /\ window' = None
    /\ window_cache' = IF IsSome(W.window_class)
                       THEN SetWindowState(window_cache, W.window_class[1], position, size)
                       ELSE window_cache
    /\ calls' = NoCalls
    /\ queried' = {}
    /\ built_with' = None
    /\ UNCHANGED builder
    /\ UNCHANGED <<element_vars, effect_vars>>

\* update_window_state on behalf of another window of the application
UpdateWindowState(class, position, size) ==
    /\ builder = None
    /\ window = None
    /\ window_cache' = SetWindowState(window_cache, class, position, size)
    /\ UNCHANGED <<builder, calls, window, queried, built_with>>
    /\ UNCHANGED <<element_vars, effect_vars>>

----------------------------------------------------------------------------
(* ErrorWindow (src/interface/windows/error.rs).                           *)

\* Window::new(window_cache, interface_settings, available_space, title, class,
\* elements, size_bound, closable): the window build makes of the same fields
WindowNew(cache, scaling, available_space, title, class, elements, size_bound, closable) ==
    BuildWindow([title |-> Some(title),
                 closable |-> closable,
                 class |-> class,
                 size_bound |-> SetWith(size_bound),
                 elements |-> SetWith(elements),
                 background_color |-> None,
                 theme_kind |-> DefaultThemeKind],
                cache, scaling, available_space)

\* Text::new(message, Color::rgb(220, 100, 100), 14.0, constraint!(100%, 14))
Text(message) == [kind |-> "Text", text |-> message]

\* constraint!(300 > 400 < 500, ?), in units of 50 pixels
ErrorSizeBound ==
    [width |-> Absolute(8), minimum_width |-> Some(Absolute(6)), maximum_width |-> Some(Absolute(10)),
     height |-> Flexible, minimum_height |-> None, maximum_height |-> None]

\* ErrorWindow::to_window
ErrorWindowToWindow(message, scaling, available_space) ==
    /\ builder = None
    /\ window = None
    /\ window' = Some(WindowNew(window_cache, scaling, available_space, "Error", None,
                                <<Text(message)>>, ErrorSizeBound, TRUE))
    /\ queried' = queried \cup CacheLookup(None, window_cache).queried
    /\ built_with' = Some([scaling |-> scaling, available_space |-> available_space])
    /\ UNCHANGED <<builder, calls, window_cache>>
    /\ UNCHANGED <<element_vars, effect_vars>>

----------------------------------------------------------------------------
(* Inputs.                                                                 *)

Titles == {"Inventory", ""}
ColorSelectors == {"background"}
ThemeKinds == {"Main", "Menu"}

RECURSIVE ListsOver(_, _)
\* the lists of at most n elements of ids, none repeated
ListsOver(ids, n) ==
    IF n = 0 THEN {<<>>}
    ELSE {<<>>} \cup UNION {{<<i>> \o l : l \in ListsOver(ids \ {i}, n - 1)} : i \in ids}

UserElement(id) == [kind |-> "User", id |-> id]
UserLists == {[k \in 1..Len(l) |-> UserElement(l[k])] : l \in ListsOver(1..MaxElems, MaxElems)}

Bound(width, minimum, maximum, height) ==
    [width |-> width, minimum_width |-> minimum, maximum_width |-> maximum,
     height |-> height, minimum_height |-> minimum, maximum_height |-> maximum]

Scalings == 1..MaxScale
Lengths == {6 * k - 4 : k \in 1..MaxAvail}
Spaces == {[width |-> w, height |-> h] : w \in Lengths, h \in Lengths}
CachedLengths == {3 * k - 1 : k \in 1..MaxSize}
CachedSizes == {[width |-> w, height |-> h] : w \in CachedLengths, h \in CachedLengths}
CachedOffsets == {3 * k - 4 : k \in 1..MaxPos}
CachedPositions == {[left |-> l, top |-> t] : l \in CachedOffsets, t \in CachedOffsets}

\* constraint!(4 > 6 < 6, ?) style bounds of a window
SizeBounds ==
    {Bound(Absolute(6), Some(Absolute(4)), Some(Absolute(6)), Flexible),
     Bound(Relative(100), None, None, Absolute(2)),
     Bound(Flexible, Some(Absolute(4)), None, Absolute(4))}

----------------------------------------------------------------------------
(* The effect source (types/map/effect/mod.rs).                            *)
(*                                                                         *)
(* Times are f32 seconds in the program; the model counts tenths of a      *)
(* second.  A particle is modelled by its identity: Particle::update       *)
(* reports whether the particle is still alive and the model draws that    *)
(* answer freely.                                                          *)
(*                                                                         *)
(* update takes &self and writes through mut_self, a &mut made from the    *)
(* same address (line 32).  The loop condition reads the length of the     *)
(* list through self (line 41).  The list is written behind the back of    *)
(* that shared reference, which the language leaves undefined: a build may *)
(* read the length anew or keep a length it has read through self earlier  *)
(* in the call, so each read yields any length the list has had since the  *)
(* call began.                                                             *)

MaxParticles == 3
MaxDelta == 4
SpawnThreshold == 3
SpawnPeriod == 10

ParticleIds == 1..MaxParticles
DeltaTimes == 0..MaxDelta

NoFrame == [pc |-> "new", index |-> 0, before |-> <<>>, accumulated |-> 0, spawned |-> FALSE, updates |-> <<>>, seen |-> {}]

EffectSourceNew ==
    /\ particles = <<>>
    /\ spawn_timer = 0
    /\ frame = NoFrame

Range(list) == {list[i] : i \in 1..Len(list)}

\* Particle::new: a particle no other particle of the list is
NewParticle(list) == CHOOSE id \in ParticleIds : id \notin Range(list) /\ \A other \in ParticleIds \ Range(list) : id <= other

\* the outcomes of Particle::update: the particle is still alive, or not
ParticleUpdate == BOOLEAN

\* Vec::remove(index), index counted from 0
VecRemove(list, index) == SubSeq(list, 1, index) \o SubSeq(list, index + 2, Len(list))

\* self.particles.len(): what a read through the shared reference may yield
LenReads == frame.seen \cup {Len(particles)}

\* update, lines 30-40: the timer, the spawn and the start of the loop
EffectUpdate(delta_time) ==
    LET accumulated == spawn_timer + delta_time
        spawned == accumulated > SpawnThreshold
        pushed == IF spawned THEN Append(particles, NewParticle(particles)) ELSE particles
    IN  /\ frame.pc \in {"new", "returned"}
        /\ spawned => Len(particles) < MaxParticles
        /\ spawn_timer' = IF spawned THEN accumulated - SpawnPeriod ELSE accumulated
        /\ particles' = pushed
        /\ frame' = [pc |-> "loop", index |-> 0, before |-> particles, accumulated |-> accumulated, spawned |-> spawned,
                     updates |-> <<>>, seen |-> {Len(particles), Len(pushed)}]
        /\ UNCHANGED <<window_vars, element_vars>>

\* update, lines 41-46: one test of the loop condition and, if it holds, one turn of the loop
EffectLoop ==
    /\ frame.pc = "loop"
    /\ \E len \in LenReads :
        IF frame.index < len
        THEN IF frame.index < Len(particles)
             THEN \E alive \in ParticleUpdate :
                    LET updates == Append(frame.updates, [particle |-> particles[frame.index + 1], alive |-> alive])
                    IN  IF alive
                        THEN /\ frame' = [frame EXCEPT !.index = frame.index + 1, !.updates = updates]
                             /\ UNCHANGED particles
                        ELSE /\ particles' = VecRemove(particles, frame.index)
                             /\ frame' = [frame EXCEPT !.updates = updates, !.seen = frame.seen \cup {Len(particles) - 1}]
             ELSE /\ frame' = [frame EXCEPT !.pc = "out_of_bounds"]
                  /\ UNCHANGED particles
        ELSE /\ frame' = [frame EXCEPT !.pc = "returned"]
             /\ UNCHANGED particles
    /\ UNCHANGED <<spawn_timer, window_vars, element_vars>>

----------------------------------------------------------------------------
(* Specifications.                                                         *)

Init ==
    /\ builder = Some(NewBuilder)
    /\ calls = NoCalls
    /\ window = None
    /\ window_cache = [c \in Classes |-> None]
    /\ queried = {}
    /\ built_with = None
    /\ EffectSourceNew
    /\ cells = <<>>
    /\ items = <<>>
    /\ pending = FALSE
    /\ generation = 0
    /\ returned = None
    /\ nav = None
    /\ visited = <<>>

\* the two geometries a window is closed at in Spec
Near == [position |-> [left |-> 2, top |-> 2], size |-> [width |-> 5, height |-> 5]]
Far == [position |-> [left |-> -1, top |-> 5], size |-> [width |-> 8, height |-> 2]]

\* every builder call with every argument, over a cache of two classes and few geometries
Next ==
    \/ New
    \/ \E title \in Titles : WithTitle(title)
    \/ Closable
    \/ \E class \in Classes : WithClass(class)
    \/ \E class \in {None} \cup {Some(c) : c \in Classes} : WithClassOption(class)
    \/ WithSizeBound(Bound(Absolute(6), Some(Absolute(4)), Some(Absolute(6)), Flexible))
    \/ \E elements \in UserLists : WithElements(elements)
    \/ \E color \in ColorSelectors : WithBackgroundColor(color)
    \/ \E theme_kind \in ThemeKinds : WithThemeKind(theme_kind)
    \/ Build(1, [width |-> 8, height |-> 8])
    \/ CloseWindow(Near.position, Near.size)
    \/ \E class \in Classes : UpdateWindowState(class, Far.position, Far.size)

Spec == Init /\ [][Next]_vars

\* every geometry of one class beside one geometry of the other, over builders
\* of few arguments
NextCache ==
    \/ New
    \/ WithClass("inventory")
    \/ \E class \in {None, Some("inventory")} : WithClassOption(class)
    \/ \E size_bound \in SizeBounds : WithSizeBound(size_bound)
    \/ WithElements(<<>>)
    \/ \E scaling \in Scalings, available_space \in Spaces : Build(scaling, available_space)
    \/ \E position \in CachedPositions, size \in CachedSizes : CloseWindow(position, size)
    \/ \E position \in CachedPositions, size \in CachedSizes :
          UpdateWindowState("inventory", position, size)
    \/ UpdateWindowState("equipment", Far.position, Far.size)
    \/ \E scaling \in Scalings, available_space \in Spaces :
          ErrorWindowToWindow("message", scaling, available_space)

SpecCache == Init /\ [][NextCache]_vars

----------------------------------------------------------------------------
(* What the calls made on the builder say, whatever their order.           *)

ConfigMethods == Methods \ {"build"}
Times(m) == Len(calls[m])

\* the settings and available space the open window was built with
BuildArgs == built_with[1]

\* the fields a builder holds after the calls recorded in c, in any order
FieldsAfter(c) ==
    [title |-> IF c["with_title"] # <<>> THEN Some(c["with_title"][1]) ELSE None,
     closable |-> c["closable"] # <<>>,
     class |-> IF c["with_class"] # <<>> THEN Some(c["with_class"][1])
               ELSE IF c["with_class_option"] # <<>> THEN c["with_class_option"][1]
               ELSE None,
     size_bound |-> IF c["with_size_bound"] # <<>> THEN SetWith(c["with_size_bound"][1]) ELSE NotSet,
     elements |-> IF c["with_elements"] # <<>> THEN SetWith(c["with_elements"][1]) ELSE NotSet,
     background_color |-> IF c["with_background_color"] # <<>>
                          THEN Some(c["with_background_color"][1]) ELSE None,
     theme_kind |-> IF c["with_theme_kind"] # <<>> THEN c["with_theme_kind"][1] ELSE DefaultThemeKind]

Fields(b) ==
    [title |-> b.title, closable |-> b.closable, class |-> b.class, size_bound |-> b.size_bound,
     elements |-> b.elements, background_color |-> b.background_color, theme_kind |-> b.theme_kind]

\* the elements of the root container of the open window
Shown == W.elements[1].elements
Count(elements, kind) == Cardinality({k \in 1..Len(elements) : elements[k].kind = kind})

----------------------------------------------------------------------------
(* C1: build can be invoked on a builder exactly when with_size_bound and  *)
(* with_elements have been called on it: both are needed, and none of      *)
(* with_title, closable, with_class, with_class_option,                    *)
(* with_background_color, with_theme_kind is.                              *)
C1_BuildNeedsSizeBoundAndElements ==
    /\ Building =>
          ((ENABLED Build(1, [width |-> 8, height |-> 8]))
              <=> (Called("with_size_bound") /\ Called("with_elements")))
    /\ Open => (Called("with_size_bound") /\ Called("with_elements"))

\* a window built after the two mandatory calls and no other
C1_Witness ==
    /\ Open
    /\ \A m \in ConfigMethods \ {"with_size_bound", "with_elements"} : ~Called(m)

(* C2: closable can be invoked only after with_title, so a builder on      *)
(* which closable was called holds a title, and a window with closable =   *)
(* TRUE shows a drag button before its close button.                       *)
C2_ClosableNeedsTitle ==
    /\ Building =>
          /\ (ENABLED Closable) => Called("with_title")
          /\ Called("closable") => (Called("with_title") /\ IsSome(B.title))
    /\ (Open /\ W.closable) =>
          /\ Called("with_title")
          /\ Count(Shown, "DragButton") = 1
          /\ Count(Shown, "CloseButton") = 1

C2_Witness == Open /\ W.closable /\ Count(Shown, "CloseButton") = 1

(* C3: every configuration method is invoked at most once on a builder,    *)
(* and with_class and with_class_option at most once between them, also    *)
(* after with_class_option(None).                                          *)
C3_AtMostOnce ==
    /\ \A m \in ConfigMethods : Times(m) <= 1
    /\ Times("with_class") + Times("with_class_option") <= 1
    /\ Building =>
          /\ Called("with_title") => ~ENABLED (\E title \in Titles : WithTitle(title))
          /\ Called("closable") => ~ENABLED Closable
          /\ (Called("with_class") \/ Called("with_class_option")) =>
                /\ ~ENABLED (\E class \in Classes : WithClass(class))
                /\ ~ENABLED (\E class \in {None} \cup {Some(c) : c \in Classes} : WithClassOption(class))
          /\ Called("with_size_bound") => ~ENABLED (\E size_bound \in SizeBounds : WithSizeBound(size_bound))
          /\ Called("with_elements") => ~ENABLED (\E elements \in UserLists : WithElements(elements))
          /\ Called("with_background_color") =>
                ~ENABLED (\E color \in ColorSelectors : WithBackgroundColor(color))
          /\ Called("with_theme_kind") => ~ENABLED (\E theme_kind \in ThemeKinds : WithThemeKind(theme_kind))

\* a builder on which every configuration method was called, the class set to None
C3_Witness ==
    /\ Building
    /\ calls["with_class_option"] = <<None>>
    /\ \A m \in ConfigMethods \ {"with_class", "with_class_option"} : Times(m) = 1

(* C4: the configuration calls commute: the fields of the builder, and the *)
(* window build makes of them with a cache, settings and available space,  *)
(* are those of the set of calls made, whatever the order they came in.    *)
C4_CallsCommute ==
    /\ Building => Fields(B) = FieldsAfter(calls)
    /\ Open => W = BuildWindow(FieldsAfter(calls), window_cache,
                               BuildArgs.scaling, BuildArgs.available_space)

\* a window built after every configuration call, which came in some order
C4_Witness ==
    /\ Open
    /\ \A m \in ConfigMethods \ {"with_class_option"} : Times(m) = 1
    /\ IsSome(W.background_color)
    /\ W.theme_kind # DefaultThemeKind

(* C5: build puts the chrome in front of the user's elements: a drag       *)
(* button exactly when a title was set, a close button exactly when        *)
(* closable was, the drag button first and the close button after it, and  *)
(* then the user's elements in their order, each once.                     *)
C5_ChromeInFront ==
    Open =>
        LET user == calls["with_elements"][1]
            titled == Called("with_title")
            closing == Called("closable")
            chrome == (IF titled THEN 1 ELSE 0) + (IF closing THEN 1 ELSE 0)
        IN  /\ Len(W.elements) = 1
            /\ Len(Shown) = chrome + Len(user)
            /\ SubSeq(Shown, chrome + 1, Len(Shown)) = user
            /\ Count(Shown, "DragButton") = (IF titled THEN 1 ELSE 0)
            /\ Count(Shown, "CloseButton") = (IF closing THEN 1 ELSE 0)
            /\ titled => (Shown[1].kind = "DragButton" /\ Shown[1].title = calls["with_title"][1])
            /\ (titled /\ closing) => Shown[2] = CloseButton

\* a titled, closable window of two user elements
C5_Witness ==
    /\ Open
    /\ Called("closable")
    /\ Len(calls["with_elements"][1]) >= 2
    /\ Shown[2] = CloseButton

----------------------------------------------------------------------------
(* The geometry of the open window against the cache it was built over.    *)
(* The cache is not written while a window is open, so window_cache is the *)
(* cache build was given.                                                  *)

Classed == IsSome(W.window_class)
Entry == GetWindowState(window_cache, W.window_class[1])
Available == BuildArgs.available_space

\* the size resolved from the bound alone
FreshSize == FinalizeOr(ResolveWindow(W.size_bound, Available, Available, BuildArgs.scaling), 0)

\* position = (available_space - size) / 2 on each axis
IsCentered(position, size) ==
    /\ 2 * position.left = Available.width - size.width
    /\ 2 * position.top = Available.height - size.height

\* the rectangle of the window lies within the available space
OnScreen(position, size) ==
    /\ 0 <= position.left
    /\ position.left + size.width <= Available.width
    /\ 0 <= position.top
    /\ position.top + size.height <= Available.height

\* the resolved minimum and maximum of the window's bound
Resolved(limit, available) == Resolve(limit[1], available, available, BuildArgs.scaling)

WithinBound(size) ==
    /\ IsSome(W.size_bound.minimum_width) =>
          size.width >= Resolved(W.size_bound.minimum_width, Available.width)
    /\ IsSome(W.size_bound.maximum_width) =>
          size.width <= Resolved(W.size_bound.maximum_width, Available.width)
    /\ IsSome(W.size_bound.minimum_height) =>
          size.height >= Resolved(W.size_bound.minimum_height, Available.height)
    /\ IsSome(W.size_bound.maximum_height) =>
          size.height <= Resolved(W.size_bound.maximum_height, Available.height)

(* C6: building a window without a class (with_class and                  *)
(* with_class_option never called, or with_class_option(None), or the      *)
(* error window) asks the cache for nothing and leaves it as it was,       *)
(* whatever it holds: the size is the one resolved from the bound and the  *)
(* position the centred one.                                               *)
C6_NoClassNoCache ==
    [][(~Open /\ Open' /\ (IF Building THEN B.class = None ELSE W'.window_class = None)) =>
          /\ window_cache' = window_cache
          /\ queried' = {}
          /\ W'.window_class = None
          /\ W'.size = FreshSize'
          /\ IsCentered(W.position, W.size)']_vars

\* a window built with with_class_option(None) over a cache that holds another geometry
C6_Witness ==
    /\ Open
    /\ calls["with_class_option"] = <<None>>
    /\ W.window_class = None
    /\ IsSome(window_cache[DefaultClass])
    /\ window_cache[DefaultClass][1].size # W.size
    /\ window_cache[DefaultClass][1].position # W.position

(* C7: a window of a class the cache has no entry for is built all the     *)
(* same, with the size resolved from the bound and the position centred,   *)
(* (available_space - size) / 2 on each axis; and position and size of a   *)
(* window are both made of the cache entry or both computed afresh.        *)
C7_MissIsCentered ==
    Open =>
        /\ (Classed /\ Entry = None) => (W.size = FreshSize /\ IsCentered(W.position, W.size))
        /\ \/ W.size = FreshSize /\ IsCentered(W.position, W.size)
           \/ /\ Classed
              /\ IsSome(Entry)
              /\ W.size = ValidatedWindowSize(W.size_bound, Entry[1].size, Available, BuildArgs.scaling)
              /\ W.position = ValidatedPosition(W.size_bound, Entry[1].position, W.size, Available)

\* a classed window built over a cache without its class, away from the origin
C7_Witness ==
    /\ Open
    /\ Classed
    /\ Entry = None
    /\ \E c \in Classes : IsSome(window_cache[c])
    /\ queried = {W.window_class[1]}
    /\ W.position.left > 0

(* C8: after update_window_state(class, P, S), a window of that class is   *)
(* built with the size validated_window_size makes of S and the position   *)
(* validated_position makes of P and that size.                            *)
C8_RoundTrip ==
    (Open /\ Classed /\ IsSome(Entry)) =>
        LET size == ValidatedWindowSize(W.size_bound, Entry[1].size, Available, BuildArgs.scaling)
        IN  /\ W.size = size
            /\ W.position = ValidatedPosition(W.size_bound, Entry[1].position, size, Available)

\* a window whose cached size and position were both changed by the validation
C8_Witness ==
    /\ Open
    /\ Classed
    /\ IsSome(Entry)
    /\ W.size.width # Entry[1].size.width
    /\ W.position.left # Entry[1].position.left

(* C9: a classed window whose cached size lies within the minimum and      *)
(* maximum of its bound, and whose cached rectangle lies within the        *)
(* available space, is built at exactly the cached position and size.      *)
C9_ReopenRestores ==
    (Open /\ Classed /\ IsSome(Entry)
          /\ WithinBound(Entry[1].size) /\ OnScreen(Entry[1].position, Entry[1].size)) =>
        (W.position = Entry[1].position /\ W.size = Entry[1].size)

\* bound min 4 / max 6, available (8, 8), closed at position (2, 2), size (5, 5)
C9_Witness ==
    /\ Open
    /\ Classed
    /\ W.size_bound = Bound(Absolute(6), Some(Absolute(4)), Some(Absolute(6)), Flexible)
    /\ BuildArgs = [scaling |-> 1, available_space |-> [width |-> 8, height |-> 8]]
    /\ Entry = Some([position |-> [left |-> 2, top |-> 2], size |-> [width |-> 5, height |-> 5]])
    /\ W.position = [left |-> 2, top |-> 2]
    /\ W.size = [width |-> 5, height |-> 5]
    /\ ~IsCentered(W.position, W.size)

\* on the horizontal axis, the available space is below the cached size and the minimum
ShrunkWidth ==
    /\ Available.width < Entry[1].size.width
    /\ IsSome(W.size_bound.minimum_width)
    /\ Available.width < Resolved(W.size_bound.minimum_width, Available.width)

ShrunkHeight ==
    /\ Available.height < Entry[1].size.height
    /\ IsSome(W.size_bound.minimum_height)
    /\ Available.height < Resolved(W.size_bound.minimum_height, Available.height)

(* C10: when the available space is smaller than the cached size and than  *)
(* the minimum of the bound, the size is the available space, below the    *)
(* minimum, and the position is the centred one, the rectangle of the      *)
(* window lying within the available space.                                *)
C10_ShrunkClampsToAvailable ==
    (Open /\ Classed /\ IsSome(Entry)) =>
        /\ ShrunkWidth => (W.size.width = Available.width /\ W.position.left = 0)
        /\ ShrunkHeight => (W.size.height = Available.height /\ W.position.top = 0)
        /\ (ShrunkWidth /\ ShrunkHeight) =>
              /\ W.size = Available
              /\ IsCentered(W.position, W.size)
              /\ OnScreen(W.position, W.size)

\* cached (5, 5) at (2, 2), minimum 4, available (2, 2)
C10_Witness ==
    /\ Open
    /\ Classed
    /\ IsSome(Entry)
    /\ ShrunkWidth
    /\ ShrunkHeight
    /\ Entry[1].position = [left |-> 2, top |-> 2]
    /\ Entry[1].size = [width |-> 5, height |-> 5]
    /\ W.size = [width |-> 2, height |-> 2]

----------------------------------------------------------------------------
(* The element tree (spec 3, Element, ElementState, ContainerState).       *)
(* A cell is an Rc<RefCell<dyn Element>>; a weak reference is the cell it   *)
(* points to, and a cell that was dropped is no longer in DOMAIN cells.    *)

MaxItems == 2
MaxRebuilds == 2

RootCell == <<"root">>
EquipmentCell == <<"equipment">>
SlotCell(g, i) == <<"slot", g, i>>
ItemBoxCell(g, i) == <<"item_box", g, i>>
TextCell(g, i) == <<"text", g, i>>

Rect(left, top, width, height) ==
    [left |-> left, top |-> top, width |-> width, height |-> height]

\* an element with its ElementState: the children it owns, the two back
\* references, and the rectangle it was resolved to, relative to its parent
Element(kind, elements, focusable, rect, item) ==
    [kind |-> kind, elements |-> elements, parent_element |-> None, weak_self |-> None,
     focusable |-> focusable, rect |-> rect, item |-> item]

\* const SLOT_POSITIONS: [EquipPosition; 9]
SLOT_POSITIONS ==
    <<"HeadTop", "HeadMiddle", "HeadLower", "Armor", "Garment", "Shoes",
      "LeftHand", "RightHand", "Ammo">>

Slots == DOMAIN SLOT_POSITIONS

RECURSIVE FindLast(_, _, _)
\* mutant of Find: the last item of the list equipped at the slot
FindLast(list, slot, k) ==
    IF k > Len(list) THEN None
    ELSE IF IsSome(FindLast(list, slot, k + 1)) THEN FindLast(list, slot, k + 1)
    ELSE IF list[k].equipped_position = slot THEN Some(list[k])
    ELSE None

\* items.iter().find(|item| item.equipped_position == slot).cloned()
RECURSIVE Find(_, _, _)
Find(list, slot, k) ==
    IF k > Len(list) THEN None
    ELSE IF list[k].equipped_position = slot THEN Some(list[k])
    ELSE Find(list, slot, k + 1)

\* ItemBox::new(item, ItemSource::Equipment { position: slot }, ..)
ItemBox(item, slot) ==
    Element("ItemBox", <<>>, TRUE, Rect(0, 0, 1, 1), [item |-> item, position |-> slot])

\* Text::default().with_text(slot.display_name())
SlotText(slot) == Element("Text", <<>>, FALSE, Rect(1, 0, 1, 1), [text |-> slot])

\* Container::new(vec![item_box.wrap(), text]).wrap()
SlotContainer(g, i) ==
    Element("Container", <<ItemBoxCell(g, i), TextCell(g, i)>>, FALSE, Rect(0, i - 1, 2, 1), None)

\* the cells EquipmentContainer::new allocates for generation g
NewCells(list, g) ==
    [c \in {SlotCell(g, i) : i \in Slots} \cup {ItemBoxCell(g, i) : i \in Slots}
            \cup {TextCell(g, i) : i \in Slots} |->
        LET i == c[3] IN
        IF c[1] = "slot" THEN SlotContainer(g, i)
        ELSE IF c[1] = "item_box" THEN ItemBox(Find(list, SLOT_POSITIONS[i], 1), SLOT_POSITIONS[i])
        ELSE SlotText(SLOT_POSITIONS[i])]

\* Self { items, weak_self: None, state: ContainerState::new(elements) }
EquipmentNew(g) ==
    Element("EquipmentContainer", [i \in Slots |-> SlotCell(g, i)], FALSE,
            Rect(0, 0, 2, Len(SLOT_POSITIONS)), None)

\* f @@ g, written out
Merge(f, g) == [c \in DOMAIN f \cup DOMAIN g |-> IF c \in DOMAIN f THEN f[c] ELSE g[c]]

\* the cells owned, directly or not, by the element of a cell
RECURSIVE Descendants(_, _)
Descendants(cs, cell) ==
    LET children == {cs[cell].elements[k] : k \in DOMAIN cs[cell].elements}
    IN children \cup UNION {Descendants(cs, c) : c \in children \cap DOMAIN cs}

----------------------------------------------------------------------------
(* link_back: an element learns its own cell and its parent's.             *)

RECURSIVE LinkBack(_, _, _, _)
RECURSIVE LinkChildren(_, _, _, _)

\* ContainerState::link_back: the parent is stored and every child is linked
\* with its own cell and the container's self reference as its parent
ContainerStateLinkBack(cs, cell, weak_self, weak_parent) ==
    LinkChildren([cs EXCEPT ![cell].parent_element = weak_parent], cell, weak_self, 1)

\* mutant of EquipmentLinkBack: the self reference is not stored
EquipmentLinkBackForgetful(cs, cell, weak_self, weak_parent) ==
    ContainerStateLinkBack(cs, cell, weak_self, weak_parent)

\* EquipmentContainer::link_back
EquipmentLinkBack(cs, cell, weak_self, weak_parent) ==
    ContainerStateLinkBack([cs EXCEPT ![cell].weak_self = Some(weak_self)],
                           cell, weak_self, weak_parent)

\* Element::link_back of the element in the cell
LinkBack(cs, cell, weak_self, weak_parent) ==
    IF cs[cell].kind = "EquipmentContainer"
    THEN EquipmentLinkBack(cs, cell, weak_self, weak_parent)
    ELSE ContainerStateLinkBack([cs EXCEPT ![cell].weak_self = Some(weak_self)],
                                cell, weak_self, weak_parent)

LinkChildren(cs, cell, weak_self, k) ==
    IF k > Len(cs[cell].elements) THEN cs
    ELSE LET child == cs[cell].elements[k]
         IN LinkChildren(LinkBack(cs, child, child, Some(weak_self)), cell, weak_self, k + 1)

----------------------------------------------------------------------------
(* EquipmentContainer::update.                                             *)

\* Remote::consume_changed: whether the tracked value changed since the last
\* call; the change is consumed by the call
ConsumeChanged(changed) == [changed |-> changed, remote |-> FALSE]

\* mutant of Relink: the rebuilt container is linked without its parent
RelinkOrphaned(cs, weak_self, weak_parent) ==
    EquipmentLinkBack(cs, EquipmentCell, weak_self, None)

\* mutant of Relink: the rebuilt container is not linked
RelinkSkipped(cs, weak_self, weak_parent) == cs

\* self.link_back(weak_self, weak_parent)
Relink(cs, weak_self, weak_parent) ==
    EquipmentLinkBack(cs, EquipmentCell, weak_self, weak_parent)

\* *self = Self::new(self.items.clone()): the old children are dropped with
\* the old container and the new one owns freshly allocated children
Rebuilt(cs, list, g) ==
    LET dropped == Descendants(cs, EquipmentCell)
        kept == [c \in DOMAIN cs \ dropped |-> cs[c]]
    IN Merge([kept EXCEPT ![EquipmentCell] = EquipmentNew(g)], NewCells(list, g))

\* mutant of UpdateEvent: every update asks for the window to be resolved
UpdateEventAlways(changed) == Some("RESOLVE_WINDOW")

\* return Some(ChangeEvent::RESOLVE_WINDOW), or None at the end
UpdateEvent(changed) == IF changed THEN Some("RESOLVE_WINDOW") ELSE None

Returned == returned[1]
Tick == IF IsSome(returned) THEN Returned.tick ELSE FALSE
Panicked == IsSome(returned) /\ Returned.panicked

Return(call, args, value, panicked) ==
    Some([call |-> call, args |-> args, value |-> value, panicked |-> panicked,
          tick |-> ~Tick])

HasEquipment == EquipmentCell \in DOMAIN cells
Equipment == cells[EquipmentCell]

Update ==
    /\ HasEquipment
    /\ ~Panicked
    /\ pending' = ConsumeChanged(pending).remote
    /\ IF ConsumeChanged(pending).changed
       THEN LET weak_parent == Equipment.parent_element
                weak_self == Equipment.weak_self
            IN IF IsSome(weak_self)
               THEN /\ cells' = Relink(Rebuilt(cells, items, generation + 1),
                                       weak_self[1], weak_parent)
                    /\ generation' = generation + 1
                    /\ returned' = Return("update", <<>>, UpdateEvent(TRUE), FALSE)
               \* self.weak_self.take().unwrap() on None
               ELSE /\ cells' = [cells EXCEPT ![EquipmentCell].parent_element = None]
                    /\ generation' = generation
                    /\ returned' = Return("update", <<>>, None, TRUE)
       ELSE /\ cells' = cells
            /\ generation' = generation
            /\ returned' = Return("update", <<>>, UpdateEvent(FALSE), FALSE)
    /\ UNCHANGED <<items, nav, visited, window_vars, effect_vars>>

\* the tracked Vec<Item> is written by its owner; the Remote sees a change
ItemsChange(list) ==
    /\ HasEquipment
    /\ ~Panicked
    /\ generation < MaxRebuilds
    /\ list # items
    /\ items' = list
    /\ pending' = TRUE
    /\ UNCHANGED <<cells, generation, returned, nav, visited, window_vars, effect_vars>>

\* build: elements.iter().for_each(|element| element.borrow_mut().link_back(weak, None))
LinkRoot ==
    /\ RootCell \in DOMAIN cells
    /\ ~Panicked
    /\ cells[RootCell].weak_self = None
    /\ cells' = LinkBack(cells, RootCell, RootCell, None)
    /\ UNCHANGED <<items, pending, generation, returned, nav, visited, window_vars, effect_vars>>

----------------------------------------------------------------------------
(* hovered_element (spec 4.2).                                             *)

Missed == [kind |-> "Missed", cell |-> <<>>]
Hovered == [kind |-> "Hovered", cell |-> <<>>]
HoveredCell(cell) == [kind |-> "Element", cell |-> cell]

\* the rectangle contains the position
Contains(rect, position) ==
    /\ rect.left <= position.left /\ position.left < rect.left + rect.width
    /\ rect.top <= position.top /\ position.top < rect.top + rect.height

\* the position in the coordinates of the children of the rectangle
Within(rect, position) ==
    [left |-> position.left - rect.left, top |-> position.top - rect.top]

RECURSIVE HoveredElement(_, _, _, _)
RECURSIVE HoverChildren(_, _, _, _, _)
RECURSIVE HoverChildrenFromFirst(_, _, _, _, _)

\* ContainerState::hovered_element: inside the container's rectangle the
\* children are asked, the topmost first; then the container answers for itself
ContainerStateHoveredElement(cs, cell, mouse_position, mouse_mode, hoverable) ==
    IF ~Contains(cs[cell].rect, mouse_position) THEN Missed
    ELSE LET hit == HoverChildren(cs, cell, Within(cs[cell].rect, mouse_position),
                                  mouse_mode, Len(cs[cell].elements))
         IN IF hit.kind # "Missed" THEN hit
            ELSE IF hoverable THEN Hovered
            ELSE Missed

\* mutant of Participates: the container takes part under every mouse mode
ParticipatesAlways(mouse_mode) == TRUE

\* MouseInputMode::MoveItem(..) | MouseInputMode::None
Participates(mouse_mode) == mouse_mode \in {"MoveItem", "None"}

\* EquipmentContainer::hovered_element
EquipmentHoveredElement(cs, cell, mouse_position, mouse_mode) ==
    IF Participates(mouse_mode)
    THEN ContainerStateHoveredElement(cs, cell, mouse_position, mouse_mode, FALSE)
    ELSE Missed

\* Element::hovered_element of the element in the cell
HoveredElement(cs, cell, mouse_position, mouse_mode) ==
    IF cs[cell].kind = "EquipmentContainer"
    THEN EquipmentHoveredElement(cs, cell, mouse_position, mouse_mode)
    ELSE IF cs[cell].kind \in {"Container", "InteractiveContainer"}
    THEN ContainerStateHoveredElement(cs, cell, mouse_position, mouse_mode,
                                      cs[cell].kind = "InteractiveContainer")
    ELSE IF Contains(cs[cell].rect, mouse_position) THEN Hovered
    ELSE Missed

\* mutant of HoverChildren: the last k children in the order they were
\* added, the bottom one first
HoverChildrenFromFirst(cs, cell, mouse_position, mouse_mode, k) ==
    IF k = 0 THEN Missed
    ELSE LET child == cs[cell].elements[Len(cs[cell].elements) - k + 1]
             hit == HoveredElement(cs, child, mouse_position, mouse_mode)
         IN IF hit.kind = "Hovered" THEN HoveredCell(child)
            ELSE IF hit.kind = "Element" THEN hit
            ELSE HoverChildrenFromFirst(cs, cell, mouse_position, mouse_mode, k - 1)

\* the children from the k-th down to the first
HoverChildren(cs, cell, mouse_position, mouse_mode, k) ==
    IF k = 0 THEN Missed
    ELSE LET child == cs[cell].elements[k]
             hit == HoveredElement(cs, child, mouse_position, mouse_mode)
         IN IF hit.kind = "Hovered" THEN HoveredCell(child)
            ELSE IF hit.kind = "Element" THEN hit
            ELSE HoverChildren(cs, cell, mouse_position, mouse_mode, k - 1)

MouseModes == {"None", "MoveItem", "DragElement"}

\* the mouse over the first item box, over the last text, beside and below the slots
MousePositions ==
    {[left |-> 0, top |-> 0], [left |-> 1, top |-> 8], [left |-> 2, top |-> 0],
     [left |-> 0, top |-> 9]}

\* the window asks an element for the hovered element
Hover(cell, mouse_position, mouse_mode) ==
    /\ cell \in DOMAIN cells
    /\ ~Panicked
    /\ returned' = Some([call |-> "hovered_element",
                         args |-> [cell |-> cell, mouse_position |-> mouse_position,
                                   mouse_mode |-> mouse_mode],
                         value |-> HoveredElement(cells, cell, mouse_position, mouse_mode),
                         panicked |-> FALSE, tick |-> Tick])
    /\ UNCHANGED <<cells, items, pending, generation, nav, visited, window_vars, effect_vars>>

----------------------------------------------------------------------------
(* A window whose root container holds an equipment container.             *)

Items ==
    {[id |-> 1, equipped_position |-> "HeadTop"], [id |-> 2, equipped_position |-> "HeadTop"],
     [id |-> 3, equipped_position |-> "Ammo"]}

RECURSIVE ItemLists(_)
ItemLists(n) ==
    IF n = 0 THEN {<<>>}
    ELSE ItemLists(n - 1) \cup {Append(l, i) : l \in ItemLists(n - 1), i \in Items}

\* the root Container of build, around the user's elements
RootContainer(elements) == Element("Container", elements, FALSE, Rect(0, 0, 3, 10), None)

\* the lists one item away from a list: an item is equipped, or taken off
Remove(list, k) == [j \in 1..(Len(list) - 1) |-> IF j < k THEN list[j] ELSE list[j + 1]]
Edits(list) ==
    {Append(list, i) : i \in {j \in Items : Len(list) < MaxItems}}
        \cup {Remove(list, k) : k \in DOMAIN list}

InitEquipment ==
    /\ builder = None /\ calls = NoCalls /\ window = None
    /\ window_cache = [c \in Classes |-> None] /\ queried = {} /\ built_with = None
    /\ EffectSourceNew
    /\ items \in ItemLists(MaxItems)
    /\ cells = Merge((RootCell :> RootContainer(<<EquipmentCell>>))
                        @@ (EquipmentCell :> EquipmentNew(0)),
                     NewCells(items, 0))
    /\ pending = FALSE
    /\ generation = 0
    /\ returned = None
    /\ nav = None
    /\ visited = <<>>

NextEquipment ==
    \/ LinkRoot
    \/ \E list \in Edits(items) : ItemsChange(list)
    \/ Update
    \/ \E mouse_position \in MousePositions, mouse_mode \in MouseModes :
          Hover(EquipmentCell, mouse_position, mouse_mode)

SpecEquipment == InitEquipment /\ [][NextEquipment]_vars

----------------------------------------------------------------------------
(* Claims about EquipmentContainer::update and the back references.        *)

\* the step is a call of update that returned
UpdateReturns ==
    /\ IsSome(returned')
    /\ Returned'.call = "update"
    /\ Returned'.tick # Tick
    /\ ~Returned'.panicked

\* the tree was linked by build
Linked == RootCell \in DOMAIN cells /\ IsSome(cells[RootCell].weak_self)

\* C12: an update that rebuilt the children leaves the container with the self
\* reference and the parent back reference it held immediately before the
\* update, around children that are all new
C12_UpdateKeepsReferences ==
    [][(UpdateReturns /\ pending) =>
          /\ Equipment'.weak_self = Equipment.weak_self
          /\ Equipment'.parent_element = Equipment.parent_element
          /\ Descendants(cells', EquipmentCell) \cap Descendants(cells, EquipmentCell) = {}]_vars

C12_Witness ==
    /\ IsSome(returned) /\ Returned.call = "update" /\ ~Returned.panicked
    /\ Returned.value = Some("RESOLVE_WINDOW")
    /\ Equipment.weak_self = Some(EquipmentCell)
    /\ Equipment.parent_element = Some(RootCell)
    /\ Equipment.elements[1] = SlotCell(1, 1)

\* C13: in a linked tree, whatever updates were made, every child a container
\* owns is a live cell whose parent back reference is that container, and
\* every parent back reference points to a live cell
C13_NoDanglingParent ==
    Linked =>
        /\ \A cell \in DOMAIN cells : \A k \in DOMAIN cells[cell].elements :
              /\ cells[cell].elements[k] \in DOMAIN cells
              /\ cells[cells[cell].elements[k]].parent_element = Some(cell)
        /\ \A cell \in DOMAIN cells :
              IsSome(cells[cell].parent_element) => cells[cell].parent_element[1] \in DOMAIN cells

C13_Witness ==
    /\ Linked
    /\ generation = 2
    /\ cells[ItemBoxCell(2, 9)].parent_element = Some(SlotCell(2, 9))
    /\ cells[SlotCell(2, 9)].parent_element = Some(EquipmentCell)
    /\ SlotCell(1, 9) \notin DOMAIN cells

\* C20: an update that returns gives RESOLVE_WINDOW exactly when the items
\* changed since the previous update, and none otherwise; it consumes the
\* change; without a change it leaves every cell as it was
C20_UpdateReportsChange ==
    [][UpdateReturns =>
          /\ Returned'.value = (IF pending THEN Some("RESOLVE_WINDOW") ELSE None)
          /\ ~pending'
          /\ (~pending => cells' = cells)]_vars

C20_Witness ==
    /\ IsSome(returned) /\ Returned.call = "update" /\ ~Returned.panicked
    /\ Returned.value = None
    /\ generation = 1
    /\ ~pending
    /\ Linked

\* the step is a call of hovered_element on the equipment container
HoverReturns ==
    /\ IsSome(returned')
    /\ returned' # returned
    /\ Returned'.call = "hovered_element"

\* C19: under a mouse mode other than None and MoveItem the equipment
\* container returns Missed wherever the mouse is; under None and MoveItem it
\* returns what the container hover test over its children returns
C19_HoverOnlyWhenIdleOrMovingItem ==
    [][HoverReturns =>
          LET a == Returned'.args
          IN Returned'.value =
                IF a.mouse_mode \in {"None", "MoveItem"}
                THEN ContainerStateHoveredElement(cells, EquipmentCell, a.mouse_position,
                                                  a.mouse_mode, FALSE)
                ELSE Missed]_vars

C19_Witness ==
    /\ IsSome(returned) /\ Returned.call = "hovered_element"
    /\ Returned.args.mouse_mode = "DragElement"
    /\ Returned.args.mouse_position = [left |-> 1, top |-> 8]
    /\ Returned.value = Missed
    /\ Contains(Equipment.rect, Returned.args.mouse_position)
    /\ ContainerStateHoveredElement(cells, EquipmentCell, Returned.args.mouse_position,
                                    "None", FALSE) = HoveredCell(TextCell(generation, 9))

----------------------------------------------------------------------------
(* Trees of containers and leaf widgets, linked as build links them.       *)

MaxChildren == 3

RECURSIVE SeqsUpTo(_, _)
\* the sequences of at most n elements of a set
SeqsUpTo(S, n) ==
    IF n = 0 THEN {<<>>}
    ELSE SeqsUpTo(S, n - 1) \cup {Append(l, x) : l \in SeqsUpTo(S, n - 1), x \in S}

ChildCell(k) == <<"child", k>>
LeafCell(k, j) == <<"leaf", k, j>>

\* a leaf widget: it owns no children
Leaf(focusable, rect) == Element("Leaf", <<>>, focusable, rect, None)

\* what a child of the root is made of: a leaf, or a container of leaves
LeafShape(focusable, rect) ==
    [kind |-> "Leaf", focusable |-> focusable, rect |-> rect, leaves |-> <<>>]
ContainerShape(leaves, rect) ==
    [kind |-> "Container", focusable |-> FALSE, rect |-> rect, leaves |-> leaves]

\* the cells of a root of the given kind over children of the given shapes
TreeCells(kind, shape) ==
    [c \in {RootCell} \cup {ChildCell(k) : k \in DOMAIN shape}
            \cup UNION {{LeafCell(k, j) : j \in DOMAIN shape[k].leaves} : k \in DOMAIN shape} |->
        IF c = RootCell
        THEN Element(kind, [k \in DOMAIN shape |-> ChildCell(k)], FALSE, Rect(0, 0, 4, 4), None)
        ELSE IF c[1] = "child"
        THEN LET child == shape[c[2]]
             IN IF child.kind = "Leaf" THEN Leaf(child.focusable, child.rect)
                ELSE Element("Container",
                             [j \in DOMAIN child.leaves |-> LeafCell(c[2], j)],
                             FALSE, child.rect, None)
        ELSE Leaf(shape[c[2]].leaves[c[3]], Rect(0, 0, 1, 1))]

\* the tree after build linked its root
Tree(kind, shape) == LinkBack(TreeCells(kind, shape), RootCell, RootCell, None)

\* the window around an equipment container, after build linked its root
EquipmentTree(list) ==
    LinkBack(Merge((RootCell :> RootContainer(<<EquipmentCell>>))
                       @@ (EquipmentCell :> EquipmentNew(0)),
                   NewCells(list, 0)),
             RootCell, RootCell, None)

----------------------------------------------------------------------------
(* focus_next (spec 4.3), one call at a time.                              *)

\* mutant of EquipmentSelfFocus: the equipment container takes the focus itself
EquipmentSelfFocusOn == TRUE

\* self.state.focus_next::<false> and self.state.is_focusable::<false>
EquipmentSelfFocus == FALSE

IsContainer(cs, cell) ==
    cs[cell].kind \in {"Container", "InteractiveContainer", "EquipmentContainer"}

\* the const SELF_FOCUS the element hands to its ContainerState
SelfFocus(cs, cell) == cs[cell].kind = "EquipmentContainer" /\ EquipmentSelfFocus

RECURSIVE IsFocusable(_, _)
\* Element::is_focusable: a leaf says so itself; ContainerState::is_focusable
\* is true of a container that takes the focus itself or has a focusable child
IsFocusable(cs, cell) ==
    IF IsContainer(cs, cell)
    THEN SelfFocus(cs, cell)
            \/ \E k \in DOMAIN cs[cell].elements : IsFocusable(cs, cs[cell].elements[k])
    ELSE cs[cell].focusable

\* the position of a child among the children of a container, 0 for a stranger
Position(cs, cell, child) ==
    IF \E k \in DOMAIN cs[cell].elements : cs[cell].elements[k] = child
    THEN CHOOSE k \in DOMAIN cs[cell].elements : cs[cell].elements[k] = child
    ELSE 0

\* the focusable children after a position
After(cs, cell, position) ==
    {k \in DOMAIN cs[cell].elements : k > position /\ IsFocusable(cs, cs[cell].elements[k])}

Minimum(S) == CHOOSE k \in S : \A j \in S : k <= j

\* mutant of CanWrap: navigation wraps whenever it runs off the tree
CanWrapAlways(wrapped) == TRUE

\* navigation wraps exactly once per request
CanWrap(wrapped) == wrapped = 0

Navigating == IsSome(nav)
Nav == nav[1]

Call(start, at, caller, downwards, wrapped, steps) ==
    Some([start |-> start, at |-> at, caller |-> caller, downwards |-> downwards,
          wrapped |-> wrapped, steps |-> steps])

\* the request ends with a result
Finish(value) ==
    /\ nav' = None
    /\ returned' = Some([call |-> "focus_next", args |-> Nav.start, value |-> value,
                         panicked |-> FALSE, tick |-> Tick])
    /\ visited' = IF IsSome(value) THEN Append(visited, value[1]) ELSE visited

\* the next call of focus_next is made on a cell
Forward(at, caller, downwards, wrapped) ==
    /\ nav' = Call(Nav.start, at, caller, downwards, wrapped, Nav.steps + 1)
    /\ UNCHANGED <<returned, visited>>

\* the call has nothing further below it: the parent goes on from here, and
\* the root wraps to the start of the tree
Upwards ==
    IF IsSome(cells[Nav.at].parent_element)
    THEN Forward(cells[Nav.at].parent_element[1], Some(Nav.at), FALSE, Nav.wrapped)
    ELSE IF IsContainer(cells, Nav.at) /\ CanWrap(Nav.wrapped)
    THEN Forward(Nav.at, None, TRUE, Nav.wrapped + 1)
    ELSE Finish(None)

\* ContainerState::focus_next::<SELF_FOCUS>
ContainerStateFocusNext(self_focus) ==
    LET position == IF Nav.downwards \/ Nav.caller = None THEN 0
                    ELSE Position(cells, Nav.at, Nav.caller[1])
        next == After(cells, Nav.at, position)
    IN IF Nav.downwards /\ self_focus THEN Finish(Some(Nav.at))
       ELSE IF next # {}
       THEN Forward(cells[Nav.at].elements[Minimum(next)], None, TRUE, Nav.wrapped)
       ELSE Upwards

\* Element::focus_next of a leaf: entered from above it takes the focus,
\* asked from outside it hands the request to its parent
LeafFocusNext ==
    IF Nav.downwards THEN Finish(Some(Nav.at)) ELSE Upwards

\* one call of focus_next, on the cell the request has reached
FocusStep ==
    /\ Navigating
    /\ IF IsContainer(cells, Nav.at)
       THEN ContainerStateFocusNext(SelfFocus(cells, Nav.at))
       ELSE LeafFocusNext
    /\ UNCHANGED <<cells, items, pending, generation, window_vars, effect_vars>>

\* the window asks for the next focus: from its root when nothing is
\* focused, from the focused element otherwise
FocusRequest(start) ==
    /\ ~Navigating
    /\ RootCell \in DOMAIN cells
    /\ IF IsSome(start)
       THEN /\ visited # <<>>
            /\ start[1] = visited[Len(visited)]
            /\ Len(visited) <= Cardinality({c \in DOMAIN cells : IsFocusable(cells, c)})
            /\ nav' = Call(start, start[1], None, FALSE, 0, 0)
            /\ visited' = visited
       ELSE /\ nav' = Call(start, RootCell, None, TRUE, 0, 0)
            /\ visited' = <<>>
    /\ UNCHANGED <<cells, items, pending, generation, returned, window_vars, effect_vars>>

FocusShapes ==
    {LeafShape(focusable, Rect(0, 0, 1, 1)) : focusable \in BOOLEAN}
        \cup {ContainerShape(leaves, Rect(0, 0, 1, 1)) :
                 leaves \in {<<>>, <<TRUE>>, <<FALSE, TRUE>>, <<TRUE, TRUE>>}}

InitFocus ==
    /\ builder = None /\ calls = NoCalls /\ window = None
    /\ window_cache = [c \in Classes |-> None] /\ queried = {} /\ built_with = None
    /\ EffectSourceNew
    /\ items = <<[id |-> 1, equipped_position |-> "Armor"]>>
    /\ cells \in {Tree("Container", shape) : shape \in SeqsUpTo(FocusShapes, MaxChildren)}
                    \cup {EquipmentTree(items)}
    /\ pending = FALSE
    /\ generation = 0
    /\ returned = None
    /\ nav = None
    /\ visited = <<>>

NextFocus ==
    \/ \E start \in {None} \cup {Some(c) : c \in DOMAIN cells} : FocusRequest(start)
    \/ FocusStep

SpecFocus == InitFocus /\ [][NextFocus]_vars

----------------------------------------------------------------------------
(* Claims about focus navigation.                                          *)

RECURSIVE FocusOrder(_, _)
RECURSIVE OrderFrom(_, _, _)

\* the focusable leaves below a cell, in tree order
FocusOrder(cs, cell) ==
    IF IsContainer(cs, cell) THEN OrderFrom(cs, cell, 1)
    ELSE IF cs[cell].focusable THEN <<cell>>
    ELSE <<>>

OrderFrom(cs, cell, k) ==
    IF k > Len(cs[cell].elements) THEN <<>>
    ELSE FocusOrder(cs, cs[cell].elements[k]) \o OrderFrom(cs, cell, k + 1)

\* C14: the requests made since the one without a caller, each from the
\* element the one before returned, return the focusable leaves in tree order,
\* each once, and then the first again
C14_FocusVisitsInTreeOrder ==
    LET order == FocusOrder(cells, RootCell)
    IN \A k \in DOMAIN visited :
          /\ order # <<>>
          /\ visited[k] = order[((k - 1) % Len(order)) + 1]

C14_Witness ==
    /\ ~Navigating
    /\ cells = Tree("Container", [k \in 1..3 |-> LeafShape(TRUE, Rect(0, 0, 1, 1))])
    /\ visited = <<ChildCell(1), ChildCell(2), ChildCell(3), ChildCell(1)>>

\* C15: a request in progress can always take its next step, has wrapped at
\* most once and has made no more calls than twice the cells of the tree; in
\* a tree without a focusable element the request returns none
C15_FocusTerminates ==
    /\ Navigating =>
          /\ ENABLED FocusStep
          /\ Nav.wrapped <= 1
          /\ Nav.steps <= 2 * Cardinality(DOMAIN cells)
    /\ (IsSome(returned) /\ Returned.call = "focus_next"
            /\ FocusOrder(cells, RootCell) = <<>>) => Returned.value = None

C15_Witness ==
    /\ IsSome(returned) /\ Returned.call = "focus_next"
    /\ Returned.value = None
    /\ ~Navigating
    /\ Len(cells[RootCell].elements) >= 2
    /\ \E k \in DOMAIN cells[RootCell].elements : cells[ChildCell(k)].kind = "Container"

----------------------------------------------------------------------------
(* Hover testing of a root container over overlapping children.            *)

\* two rectangles that overlap and one apart from them
LeafRects == {Rect(0, 0, 2, 2), Rect(1, 1, 2, 2), Rect(3, 0, 1, 1)}

HoverShapes ==
    {LeafShape(TRUE, rect) : rect \in LeafRects}
        \cup {ContainerShape(<<TRUE>>, Rect(0, 0, 2, 2))}

\* the mouse over one child, over two, over none, and outside the root
RootMousePositions ==
    {[left |-> 0, top |-> 0], [left |-> 1, top |-> 1], [left |-> 2, top |-> 2],
     [left |-> 3, top |-> 0], [left |-> 3, top |-> 3], [left |-> 4, top |-> 4]}

InitHover ==
    /\ builder = None /\ calls = NoCalls /\ window = None
    /\ window_cache = [c \in Classes |-> None] /\ queried = {} /\ built_with = None
    /\ EffectSourceNew
    /\ items = <<>>
    /\ cells \in {Tree(kind, shape) : kind \in {"Container", "InteractiveContainer"},
                                      shape \in SeqsUpTo(HoverShapes, MaxChildren)}
    /\ pending = FALSE
    /\ generation = 0
    /\ returned = None
    /\ nav = None
    /\ visited = <<>>

NextHover ==
    \E mouse_position \in RootMousePositions, mouse_mode \in MouseModes :
        Hover(RootCell, mouse_position, mouse_mode)

SpecHover == InitHover /\ [][NextHover]_vars

Maximum(S) == CHOOSE k \in S : \A j \in S : j <= k

\* C16: inside the root container the answer comes from the last added of the
\* children the mouse is over: a leaf whose rectangle contains the mouse, or a
\* container that finds the mouse over one of its own; over no child the
\* answer is the container itself if it is interactive and missed if not, and
\* outside the container it is missed
C16_HoverTopmostFirst ==
    (IsSome(returned) /\ Returned.call = "hovered_element" /\ Returned.args.cell = RootCell) =>
        LET root == cells[RootCell]
            mode == Returned.args.mouse_mode
            inside == Contains(root.rect, Returned.args.mouse_position)
            position == Within(root.rect, Returned.args.mouse_position)
            Over(k) ==
                IF cells[root.elements[k]].kind = "Leaf"
                THEN Contains(cells[root.elements[k]].rect, position)
                ELSE HoveredElement(cells, root.elements[k], position, mode) # Missed
            over == {k \in DOMAIN root.elements : Over(k)}
            top == root.elements[Maximum(over)]
        IN Returned.value =
              IF ~inside THEN Missed
              ELSE IF over = {}
              THEN (IF root.kind = "InteractiveContainer" THEN Hovered ELSE Missed)
              ELSE IF cells[top].kind = "Leaf" THEN HoveredCell(top)
              ELSE HoveredElement(cells, top, position, mode)

\* A was added first and B second, the mouse is over both, and the answer is B
C16_Witness ==
    /\ IsSome(returned) /\ Returned.call = "hovered_element" /\ Returned.args.cell = RootCell
    /\ Len(cells[RootCell].elements) = 2
    /\ cells[ChildCell(1)].kind = "Leaf" /\ cells[ChildCell(2)].kind = "Leaf"
    /\ cells[ChildCell(1)].rect = Rect(0, 0, 2, 2)
    /\ cells[ChildCell(2)].rect = Rect(1, 1, 2, 2)
    /\ Returned.args.mouse_position = [left |-> 1, top |-> 1]
    /\ Returned.value = HoveredCell(ChildCell(2))

----------------------------------------------------------------------------
(* Resolution of a window's size bound (spec 4.1).                         *)

MaxPx == 3

ResolveDimensions ==
    {Absolute(px) : px \in 0..MaxPx} \cup {Relative(percent) : percent \in {0, 50, 100, 150}}
        \cup {Flexible}

Limits == {None} \cup {Some(Absolute(px)) : px \in 0..MaxPx}

\* the bounds constraint!(minimum > width < maximum, ?) writes: a minimum is
\* not above the maximum
ResolveBounds ==
    {Bound(width, limits[1], limits[2], Flexible) :
        width \in ResolveDimensions,
        limits \in {l \in Limits \X Limits :
                       (IsSome(l[1]) /\ IsSome(l[2])) => l[1][1].v <= l[2][1].v}}

AvailableLengths == 0..(MaxPx * MaxScale + 1)

InitResolve ==
    /\ builder = None /\ calls = NoCalls /\ window = None
    /\ window_cache = [c \in Classes |-> None] /\ queried = {} /\ built_with = None
    /\ EffectSourceNew
    /\ cells = <<>> /\ items = <<>> /\ pending = FALSE /\ generation = 0
    /\ nav = None /\ visited = <<>>
    /\ returned \in
          {Some([call |-> "resolve_window",
                 args |-> [size_bound |-> size_bound,
                           available |-> [width |-> length, height |-> length],
                           scaling |-> scaling],
                 value |-> None, panicked |-> FALSE, tick |-> FALSE]) :
              size_bound \in ResolveBounds, length \in AvailableLengths, scaling \in Scalings}

Resolving == IsSome(returned) /\ Returned.call = "resolve_window" /\ Returned.value = None
HasResolved == IsSome(returned) /\ Returned.call = "resolve_window" /\ IsSome(Returned.value)

\* size_bound.resolve_window(available_space, available_space, scaling)
ResolveWindowCall ==
    /\ Resolving
    /\ returned' = Some([Returned EXCEPT !.value =
                            Some(ResolveWindow(Returned.args.size_bound, Returned.args.available,
                                               Returned.args.available, Returned.args.scaling))])
    /\ UNCHANGED <<cells, items, pending, generation, nav, visited, window_vars, effect_vars>>

SpecResolve == InitResolve /\ [][ResolveWindowCall]_vars

\* a minimum above zero and a maximum below the available space hold the
\* resolved length between them, whatever the axis resolved to by itself
AxisWithin(dimension, minimum, maximum, available, scaling, length) ==
    LET raw == Resolve(dimension, available, available, scaling)
        low == Resolve(minimum[1], available, available, scaling)
        high == Resolve(maximum[1], available, available, scaling)
    IN (IsSome(minimum) /\ IsSome(maximum) /\ low > 0 /\ high < available) =>
          /\ IsSome(length)
          /\ low <= length[1] /\ length[1] <= high
          /\ length[1] = IF raw < low THEN low ELSE IF raw > high THEN high ELSE raw

\* C17: every resolution that is asked for gives a size, and with a minimum
\* above zero and a maximum below the available space each axis of that size
\* lies between the two: it is the axis's own result where that lies between
\* them, and the nearer of the two where it does not
C17_ResolvedWithinLimits ==
    /\ Resolving => ENABLED ResolveWindowCall
    /\ HasResolved =>
          LET a == Returned.args
              b == a.size_bound
              size == Returned.value[1]
          IN /\ IsSome(size.width) /\ IsSome(size.height)
             /\ AxisWithin(b.width, b.minimum_width, b.maximum_width, a.available.width,
                           a.scaling, size.width)
             /\ AxisWithin(b.height, b.minimum_height, b.maximum_height, a.available.height,
                           a.scaling, size.height)

\* a Flexible width alone resolves above the maximum, and the maximum is the width
C17_Witness ==
    /\ HasResolved
    /\ Returned.args.size_bound.width = Flexible
    /\ Returned.args.size_bound.minimum_width = Some(Absolute(1))
    /\ Returned.args.size_bound.maximum_width = Some(Absolute(2))
    /\ Returned.args.scaling = 2
    /\ Returned.args.available.width = 7
    /\ Returned.value[1].width = Some(4)

\* the available length, held between the minimum and the maximum of the bound
Limited(available, minimum, maximum) ==
    IF IsSome(maximum) /\ available > Resolved(maximum, available)
    THEN Resolved(maximum, available)
    ELSE IF IsSome(minimum) /\ available < Resolved(minimum, available)
    THEN Resolved(minimum, available)
    ELSE available

----------------------------------------------------------------------------
(* What the equipment container shows after an update.                     *)

\* the item a slot shows is the first of the list equipped at the position,
\* and no item if the list has none there
ShowsFirst(shown, list, position) ==
    IF \E k \in DOMAIN list : list[k].equipped_position = position
    THEN \E k \in DOMAIN list :
            /\ list[k].equipped_position = position
            /\ \A j \in 1..(k - 1) : list[j].equipped_position # position
            /\ shown = Some(list[k])
    ELSE shown = None

\* C21: after every update that returns, the container owns nine slot
\* containers, in the order HeadTop, HeadMiddle, HeadLower, Armor, Garment,
\* Shoes, LeftHand, RightHand, Ammo, and the item box of each shows the first
\* item of the list, as the list is at that update, equipped at the slot
C21_UpdateShowsItems ==
    [][UpdateReturns =>
          LET order == <<"HeadTop", "HeadMiddle", "HeadLower", "Armor", "Garment", "Shoes",
                         "LeftHand", "RightHand", "Ammo">>
              slots == Equipment'.elements
          IN /\ Len(slots) = 9
             /\ \A i \in 1..9 :
                   /\ slots[i] \in DOMAIN cells'
                   /\ cells'[slots[i]].kind = "Container"
                   /\ Len(cells'[slots[i]].elements) = 2
                   /\ LET item_box == cells'[cells'[slots[i]].elements[1]]
                      IN /\ item_box.kind = "ItemBox"
                         /\ item_box.item.position = order[i]
                         /\ ShowsFirst(item_box.item.item, items', order[i])
             /\ \A i, j \in 1..9 : i # j => slots[i] # slots[j]]_vars

\* two items are equipped at HeadTop and the update showed the first of them
C21_Witness ==
    /\ IsSome(returned) /\ Returned.call = "update" /\ ~Returned.panicked
    /\ Returned.value = Some("RESOLVE_WINDOW")
    /\ Len(items) = 2
    /\ items[1].equipped_position = "HeadTop" /\ items[2].equipped_position = "HeadTop"
    /\ items[1].id # items[2].id
    /\ cells[ItemBoxCell(generation, 1)].item.item = Some(items[1])
    /\ cells[ItemBoxCell(generation, 9)].item.item = None

\* C23: in a tree that build linked, the equipment container holds its self
\* reference before and after every step and no step fails; a step that fails
\* is an update with a pending change in a tree that was never linked
C23_LinkedNeverFails ==
    [][/\ Linked =>
             /\ IsSome(Equipment.weak_self)
             /\ IsSome(Equipment'.weak_self)
             /\ ~Panicked'
       /\ (~Panicked /\ Panicked') =>
             /\ ~Linked
             /\ Equipment.weak_self = None
             /\ pending
             /\ Returned'.call = "update"]_vars

\* a linked container after two rebuilds and an update without a change
C23_Witness ==
    /\ Linked
    /\ Equipment.weak_self = Some(EquipmentCell)
    /\ generation = 2
    /\ ~pending
    /\ IsSome(returned) /\ Returned.call = "update" /\ ~Returned.panicked
    /\ Returned.value = None

\* the failure: an update with a pending change before build linked the tree
UnlinkedUpdateFails ==
    /\ Panicked
    /\ ~Linked
    /\ Equipment.weak_self = None

----------------------------------------------------------------------------
(* The root element of a built window.                                     *)

\* the limit of the root container is Super where the window's bound has
\* the limit, and absent where it has none
SuperWhereSet(limit, own) ==
    limit = IF own = <<>> THEN <<>> ELSE <<[kind |-> "Super", v |-> 0]>>

\* every chrome, every bound and every list of user elements
NextRoot ==
    \/ New
    \/ CloseWindow(Near.position, Near.size)
    \/ WithTitle("Inventory")
    \/ Closable
    \/ \E size_bound \in SizeBounds : WithSizeBound(size_bound)
    \/ \E elements \in UserLists : WithElements(elements)
    \/ Build(1, [width |-> 8, height |-> 8])

SpecRoot == Init /\ [][NextRoot]_vars

\* C22: a built window has one root element, a Container of the chrome
\* followed by the user's elements, of width Relative(100) and Flexible
\* height, with each minimum and maximum Super exactly where the window's own
\* bound has one, holding a reference to itself and none to a parent
C22_RootContainer ==
    Open =>
        LET root == W.elements[1]
            user == calls["with_elements"][1]
            chrome == Count(root.elements, "DragButton") + Count(root.elements, "CloseButton")
        IN  /\ Len(W.elements) = 1
            /\ root.kind = "Container"
            /\ \A k \in 1..chrome : root.elements[k].kind \in {"DragButton", "CloseButton"}
            /\ SubSeq(root.elements, chrome + 1, Len(root.elements)) = user
            /\ Count(root.elements, "DragButton") = (IF Called("with_title") THEN 1 ELSE 0)
            /\ Count(root.elements, "CloseButton") = (IF W.closable THEN 1 ELSE 0)
            /\ root.size_bound.width = [kind |-> "Relative", v |-> 100]
            /\ root.size_bound.height = [kind |-> "Flexible", v |-> 0]
            /\ SuperWhereSet(root.size_bound.minimum_width, W.size_bound.minimum_width)
            /\ SuperWhereSet(root.size_bound.maximum_width, W.size_bound.maximum_width)
            /\ SuperWhereSet(root.size_bound.minimum_height, W.size_bound.minimum_height)
            /\ SuperWhereSet(root.size_bound.maximum_height, W.size_bound.maximum_height)
            /\ root.weak_self = Some("root")
            /\ root.parent_element = None

\* a titled, closable window of two user elements whose bound has a minimum
\* and no maximum
C22_Witness ==
    /\ Open
    /\ W.closable
    /\ Len(calls["with_elements"][1]) = 2
    /\ Len(W.elements[1].elements) = 4
    /\ W.size_bound.minimum_width # None /\ W.size_bound.maximum_width = None
    /\ W.elements[1].size_bound.minimum_width = Some(Super)
    /\ W.elements[1].size_bound.maximum_width = None

----------------------------------------------------------------------------
(* The effect source's update.                                             *)

NextEffect ==
    \/ \E delta_time \in DeltaTimes : EffectUpdate(delta_time)
    \/ EffectLoop

SpecEffect == Init /\ [][NextEffect]_vars

\* the particles of a list the updates of the call reported alive
RECURSIVE Kept(_)
Kept(updates) == IF updates = <<>> THEN <<>> ELSE (IF updates[1].alive THEN <<updates[1].particle>> ELSE <<>>) \o Kept(Tail(updates))

\* the list the loop of a call starts with: the list before the call and the particle spawned
Listed == IF frame.spawned THEN Append(frame.before, NewParticle(frame.before)) ELSE frame.before

C24_Witness ==
    /\ frame.pc = "returned"
    /\ frame.spawned
    /\ Len(frame.before) = 2
    /\ ~frame.updates[1].alive
    /\ frame.updates[2].alive
    /\ Len(frame.updates) = 3
    /\ particles = Kept(frame.updates)

====
